---- MODULE Spec2Model ----
(***************************************************************************)
(* State-machine model of stablecoin_weekly.py: one weekly report run      *)
(* (run_report) after another, against two data providers, a webhook and   *)
(* the persisted history file.                                             *)
(***************************************************************************)
EXTENDS Integers, Sequences, FiniteSets, TLC

VARIABLES
    file,             \* content of HISTORY_PATH on disk
    initial,          \* ghost: which of InitialFiles the store held before the first run
    appended,         \* ghost: the entries the runs have appended, in order
    run,              \* number of run_report invocations started so far
    pc,               \* position of the current run inside run_report
    attempt,          \* perform_request: attempt number of the call in flight (tenacity)
    webhook_url,      \* run_report local: "set" or "unset"
    pegged_assets,    \* run_report local
    chart_points,     \* run_report local
    top_symbols,      \* run_report local
    computed,         \* ghost: metric values derived so far by the run (name -> value)
    partial_metrics,  \* run_report local: the MetricsSnapshot handed to the reports
    missing_symbols,  \* run_report local
    window,           \* run_report locals start_date/end_date: TRUE once set
    polls,            \* wait_for_dune_execution: status polls issued
    sleeps,           \* wait_for_dune_execution: sleeps taken
    last_poll,        \* wait_for_dune_execution: the last status payload received
    last_page,        \* fetch_dune_result_rows: the results payload just processed
    last_failure,     \* perform_request: FailureClass of the attempt that just failed, else ""
    pages,            \* fetch_dune_result_rows: result pages requested
    offset,           \* fetch_dune_result_rows local
    rows,             \* fetch_dune_result_rows local
    history,          \* run_report local: the loaded list (plus the new entry)
    wow_map,          \* run_report local
    error_message,    \* the exception that ended the pipeline ("" while none)
    failed_at,        \* ghost: pc at which the pipeline raised ("" while none)
    last_reply,       \* what the webhook answered to the request_feishu call just finished
    sent,             \* request_feishu calls finished in this run, in order
    notify_error,     \* exception logged by the failure-reporting path ("" if none)
    exit_code,        \* run_report's return value: -1 while running
    args,             \* a function called on its own: its name and arguments
    returned,         \* what that call returned or raised
    writing,          \* Path.write_text in save_history: "closed", "opened" or "partial"
    observed,         \* what another process last read from HISTORY_PATH
    invocations       \* run_report invocations at their history steps at the same time:
                      \* for each where it is and its local history

vars == <<file, initial, appended, run, pc, attempt, webhook_url, pegged_assets, chart_points,
          top_symbols, computed, partial_metrics, missing_symbols, window, polls, sleeps,
          last_poll, last_page, last_failure, pages, offset, rows, history, wow_map, error_message, failed_at,
          last_reply, sent, notify_error, exit_code, args, returned, writing, observed,
          invocations>>

(***************************************************************************)
(* Bounds of the model and constants of the program.                       *)
(***************************************************************************)
MaxRuns == 2
MaxPages == 2
MaxTop == 3
MaxAssets == 3
MaxUnits == 3
MaxEntries == 3
MaxInvocations == 2

MAX_HISTORY_ITEMS == 52
DUNE_MAX_POLLS == 120
MAX_ATTEMPTS == 3
TOP_N == 20
DUNE_RESULT_PAGE_LIMIT == 1000

(***************************************************************************)
(* Values.  A float-or-None is a record; a value is a reduced fraction.    *)
(***************************************************************************)
RECURSIVE Gcd(_, _)
Gcd(a, b) == IF b = 0 THEN a ELSE Gcd(b, a % b)

Abs(x) == IF x < 0 THEN -x ELSE x

None == [avail |-> FALSE, num |-> 0, den |-> 1]

Frac(n, d) ==
    LET g == Gcd(Abs(n), Abs(d))
        s == IF d < 0 THEN -1 ELSE 1
    IN  [avail |-> TRUE, num |-> s * (n \div g), den |-> s * (d \div g)]

Float(n) == [avail |-> TRUE, num |-> n, den |-> 1]

METRIC_NAMES ==
    <<"total_supply_usd", "usdc_supply_usd", "usdc_supply_share",
      "usdc_transfer_volume_share_7d">>

MetricSet == {METRIC_NAMES[i] : i \in 1..Len(METRIC_NAMES)}

SupplyMetrics == {"total_supply_usd", "usdc_supply_usd", "usdc_supply_share"}

METRIC_SPECS ==
    [m \in MetricSet |->
        IF m \in {"total_supply_usd", "usdc_supply_usd"} THEN "currency" ELSE "share"]

NoMetrics == [m \in MetricSet |-> None]

(***************************************************************************)
(* Symbols.  A raw symbol is its lowercase, trimmed text together with     *)
(* whether the raw text carries uppercase letters or surrounding blanks.   *)
(***************************************************************************)
Sym(b, u, p) == [base |-> b, upper |-> u, pad |-> p]
Strip(s) == [s EXCEPT !.pad = FALSE]
Lower(s) == [s EXCEPT !.upper = FALSE]
Upper(s) == [s EXCEPT !.upper = (s.base # "")]
NormSym(b) == Sym(b, FALSE, FALSE)
IsEmptyText(s) == s.base = "" /\ ~s.pad

(***************************************************************************)
(* Sequence helpers.                                                       *)
(***************************************************************************)
LastN(s, n) == IF Len(s) <= n THEN s ELSE SubSeq(s, Len(s) - n + 1, Len(s))

FirstN(s, n) == IF Len(s) <= n THEN s ELSE SubSeq(s, 1, n)

RECURSIVE SumOver(_, _)
SumOver(f, S) ==
    IF S = {} THEN 0
    ELSE LET x == CHOOSE y \in S : TRUE IN f[x] + SumOver(f, S \ {x})

\* the first element, not the largest
MaxOf_first(s) == s[1]

RECURSIVE MaxOf(_)
MaxOf(s) ==
    IF Len(s) = 1 THEN s[1]
    ELSE LET m == MaxOf(Tail(s)) IN IF s[1] >= m THEN s[1] ELSE m

Range(s) == {s[i] : i \in 1..Len(s)}

(***************************************************************************)
(* Supply Snapshot: build_top20_symbols_and_usdc_supply,                   *)
(* get_total_supply_usd.                                                   *)
(***************************************************************************)
Ok(v) == [ok |-> TRUE, err |-> "", val |-> v]
Err(e) == [ok |-> FALSE, err |-> e, val |-> <<>>]

get_pegged_usd_circulating(asset) ==
    IF asset.circulating.shape \in {"dict", "scalar"} THEN asset.circulating.v ELSE 0

\* usd_assets of the first loop: (stripped symbol, circulating) of every
\* peggedUSD asset with a non-empty symbol, in list order.
RECURSIVE UsdAssets(_)
UsdAssets(assets) ==
    IF assets = <<>> THEN <<>>
    ELSE LET a == Head(assets)
             symbol == Strip(a.symbol)
         IN  IF a.pegType # "peggedUSD" \/ symbol.base = ""
             THEN UsdAssets(Tail(assets))
             ELSE <<[symbol |-> symbol, circulating |-> get_pegged_usd_circulating(a)]>>
                  \o UsdAssets(Tail(assets))

RECURSIVE UsdcCandidates(_)
UsdcCandidates(usd_assets) ==
    IF usd_assets = <<>> THEN <<>>
    ELSE IF Upper(Head(usd_assets).symbol) = Upper(NormSym("usdc"))
         THEN <<Head(usd_assets).circulating>> \o UsdcCandidates(Tail(usd_assets))
         ELSE UsdcCandidates(Tail(usd_assets))

\* sorted(..., key=circulating, reverse=True): stable, equal keys keep list order.
RECURSIVE InsertDesc(_, _)
InsertDesc(x, s) ==
    IF s = <<>> THEN <<x>>
    ELSE IF Head(s).circulating >= x.circulating THEN <<Head(s)>> \o InsertDesc(x, Tail(s))
         ELSE <<x>> \o s

RECURSIVE SortedDesc(_)
SortedDesc(s) ==
    IF s = <<>> THEN <<>>
    ELSE InsertDesc(s[Len(s)], SortedDesc(SubSeq(s, 1, Len(s) - 1)))

\* a second loop without seen_symbols
RECURSIVE TopSymbols_with_duplicates(_, _)
TopSymbols_with_duplicates(sorted_assets, top) ==
    IF sorted_assets = <<>> \/ Len(top) = TOP_N THEN top
    ELSE TopSymbols_with_duplicates(Tail(sorted_assets),
                                    Append(top, Lower(Head(sorted_assets).symbol)))

\* the second loop: normalized symbols, first occurrence kept, stop at 20.
RECURSIVE TopSymbols(_, _)
TopSymbols(sorted_assets, top) ==
    IF sorted_assets = <<>> \/ Len(top) = TOP_N THEN top
    ELSE LET normalized_symbol == Lower(Head(sorted_assets).symbol)
         IN  IF normalized_symbol \in Range(top)
             THEN TopSymbols(Tail(sorted_assets), top)
             ELSE TopSymbols(Tail(sorted_assets), Append(top, normalized_symbol))

build_top20_symbols_and_usdc_supply(assets) ==
    LET usd_assets == UsdAssets(assets)
        usdc_candidates == UsdcCandidates(usd_assets)
    IN  IF usd_assets = <<>> THEN Err("No peggedUSD assets found")
        ELSE IF usdc_candidates = <<>> THEN Err("USDC supply not found")
        ELSE Ok([top_symbols |-> TopSymbols(SortedDesc(usd_assets), <<>>),
                 usdc_supply_usd |-> MaxOf(usdc_candidates)])

get_total_supply_usd(points) ==
    LET latest_point == points[Len(points)]
    IN  IF latest_point.totalCirculating # "dict"
        THEN Err("chart is missing totalCirculating data")
        ELSE IF ~latest_point.peggedUSD.has
        THEN Err("chart is missing peggedUSD total supply")
        ELSE IF latest_point.peggedUSD.v <= 0
        THEN Err("total supply is not positive")
        ELSE Ok(latest_point.peggedUSD.v)

(***************************************************************************)
(* Identity Reconciler and Metrics Computer: extract_dune_symbol_totals,   *)
(* compute_dune_share.                                                     *)
(***************************************************************************)
\* totals: the dict symbol -> summed volume, as a function on its key set.
RECURSIVE Totals(_, _)
Totals(rs, totals) ==
    IF rs = <<>> THEN totals
    ELSE LET row == Head(rs)
             symbol == Lower(Strip(row.symbol.sym))
         IN  IF ~row.symbol.has \/ symbol.base = "" \/ ~row.volume.has
             THEN Totals(Tail(rs), totals)
             ELSE Totals(Tail(rs),
                    [s \in DOMAIN totals \cup {symbol} |->
                        (IF s \in DOMAIN totals THEN totals[s] ELSE 0)
                        + (IF s = symbol THEN row.volume.v ELSE 0)])

EmptyTotals == [s \in {} |-> 0]

extract_dune_symbol_totals(rs) ==
    LET totals == Totals(rs, EmptyTotals)
    IN  IF DOMAIN totals = {} THEN Err("rows did not contain usable symbol and volume columns")
        ELSE Ok(totals)

RECURSIVE MissingSymbols(_, _)
MissingSymbols(symbols, dune_symbol_totals) ==
    IF symbols = <<>> THEN <<>>
    ELSE IF Head(symbols) \notin DOMAIN dune_symbol_totals
         THEN <<Head(symbols)>> \o MissingSymbols(Tail(symbols), dune_symbol_totals)
         ELSE MissingSymbols(Tail(symbols), dune_symbol_totals)

\* a share over every total of the query, the top-20 symbols or not
compute_dune_share_over_all_totals(dune_symbol_totals, symbols) ==
    LET missing == MissingSymbols(symbols, dune_symbol_totals)
        present == {s \in Range(symbols) : s \in DOMAIN dune_symbol_totals}
        denominator_totals == [s \in present |-> dune_symbol_totals[s]]
        denominator == SumOver(dune_symbol_totals, DOMAIN dune_symbol_totals)
    IN  IF NormSym("usdc") \notin present
        THEN Ok([share |-> None, missing_symbols |-> missing,
                 denominator_totals |-> denominator_totals])
        ELSE IF denominator <= 0 THEN Err("Dune denominator volume is zero")
        ELSE Ok([share |-> Frac(denominator_totals[NormSym("usdc")], denominator),
                 missing_symbols |-> missing,
                 denominator_totals |-> denominator_totals])

compute_dune_share(dune_symbol_totals, symbols) ==
    LET missing == MissingSymbols(symbols, dune_symbol_totals)
        present == {s \in Range(symbols) : s \in DOMAIN dune_symbol_totals}
        denominator_totals == [s \in present |-> dune_symbol_totals[s]]
        denominator == SumOver(denominator_totals, present)
    IN  IF NormSym("usdc") \notin present
        THEN Ok([share |-> None, missing_symbols |-> missing,
                 denominator_totals |-> denominator_totals])
        ELSE IF denominator <= 0 THEN Err("Dune denominator volume is zero")
        ELSE Ok([share |-> Frac(denominator_totals[NormSym("usdc")], denominator),
                 missing_symbols |-> missing,
                 denominator_totals |-> denominator_totals])

(***************************************************************************)
(* History Store: load_history, save_history, get_previous_metrics,        *)
(* build_history_entry.  The file is missing, or holds text that is blank, *)
(* not JSON, JSON that is no array, or a JSON array of items.  An item of  *)
(* the array is JSON text: a metric is written as a number or as null.     *)
(***************************************************************************)
FileOf(kind, items) == [kind |-> kind, items |-> items]

IsDict(item) == item.isdict

\* a dump that writes an unavailable metric as the number 0
json_dumps_value_null_as_zero(value) ==
    [token |-> "number", num |-> value.num, den |-> value.den]

\* json.dumps and json.loads of one float-or-None
json_dumps_value(value) ==
    IF value.avail THEN [token |-> "number", num |-> value.num, den |-> value.den]
    ELSE [token |-> "null", num |-> 0, den |-> 1]

json_loads_value(text) ==
    IF text.token = "null" THEN None
    ELSE [avail |-> TRUE, num |-> text.num, den |-> text.den]

\* json.dumps and json.loads of one item of the list
json_dumps_item(item) ==
    IF ~item.isdict THEN item
    ELSE [item EXCEPT !.metrics = [m \in MetricSet |-> json_dumps_value(item.metrics[m])]]

json_loads_item(text) ==
    IF ~text.isdict THEN text
    ELSE [text EXCEPT !.metrics = [m \in MetricSet |-> json_loads_value(text.metrics[m])]]

json_dumps(items) == [i \in 1..Len(items) |-> json_dumps_item(items[i])]
json_loads(texts) == [i \in 1..Len(texts) |-> json_loads_item(texts[i])]

load_history(f) ==
    IF f.kind = "missing" THEN Ok(<<>>)
    ELSE IF f.kind = "blank" THEN Ok(<<>>)
    ELSE IF f.kind = "badjson" THEN Err("Invalid JSON in history file")
    ELSE IF f.kind # "list" THEN Err("History file must contain a JSON array")
    ELSE Ok(SelectSeq(json_loads(f.items), IsDict))

\* a save that keeps the oldest 52 entries
save_history_keeping_oldest(h) == FileOf("list", json_dumps(FirstN(h, MAX_HISTORY_ITEMS)))

save_history(h) == FileOf("list", json_dumps(LastN(h, MAX_HISTORY_ITEMS)))

\* the metrics of the oldest entry, not of the latest
get_previous_metrics_of_first(h) ==
    IF h = <<>> THEN [has |-> FALSE, metrics |-> NoMetrics]
    ELSE [has |-> TRUE, metrics |-> h[1].metrics]

get_previous_metrics(h) ==
    IF h = <<>> THEN [has |-> FALSE, metrics |-> NoMetrics]
    ELSE [has |-> TRUE, metrics |-> h[Len(h)].metrics]

build_history_entry(run_time, metrics, missing) ==
    [isdict |-> TRUE, run_time |-> run_time, metrics |-> metrics,
     missing_symbols |-> missing]

(***************************************************************************)
(* Delta Computer: format_wow, build_wow_map.  A delta is "N/A" or a       *)
(* signed number with two decimals (kept in hundredths) and its unit.      *)
(***************************************************************************)
Sub(a, b) == Frac(a.num * b.den - b.num * a.den, a.den * b.den)

\* n/d (d > 0) rounded to an integer, ties to even, as the float formatter does.
RoundHalfEven(n, d) ==
    LET q == n \div d
        r == n - q * d
    IN  IF 2 * r < d THEN q
        ELSE IF 2 * r > d THEN q + 1
        ELSE IF q % 2 = 0 THEN q ELSE q + 1

NA == [avail |-> FALSE, unit |-> "", hundredths |-> 0]

\* a share delta computed as a currency delta is: relative to the previous value
format_wow_relative_for_shares(metric_name, current, previous) ==
    IF ~current.avail \/ ~previous.avail THEN NA
    ELSE IF previous.num = 0 THEN NA
    ELSE LET diff == Sub(current, previous)
             change_ratio == Frac(diff.num * previous.den, diff.den * previous.num)
         IN  [avail |-> TRUE,
              unit |-> (IF METRIC_SPECS[metric_name] = "share" THEN "pp" ELSE "%"),
              hundredths |-> RoundHalfEven(change_ratio.num * 10000, change_ratio.den)]

format_wow(metric_name, current, previous) ==
    IF ~current.avail \/ ~previous.avail THEN NA
    ELSE IF METRIC_SPECS[metric_name] = "share"
    THEN LET delta == Sub(current, previous)
         IN  [avail |-> TRUE, unit |-> "pp",
              hundredths |-> RoundHalfEven(delta.num * 10000, delta.den)]
    ELSE IF previous.num = 0 THEN NA
    ELSE LET diff == Sub(current, previous)
             change_ratio == Frac(diff.num * previous.den, diff.den * previous.num)
         IN  [avail |-> TRUE, unit |-> "%",
              hundredths |-> RoundHalfEven(change_ratio.num * 10000, change_ratio.den)]

build_wow_map(current_metrics, previous_metrics) ==
    [m \in MetricSet |->
        format_wow(m, current_metrics[m],
                   IF previous_metrics.has THEN previous_metrics.metrics[m] ELSE None)]

NoWow == [m \in MetricSet |-> NA]

(***************************************************************************)
(* Transient-Fault Classifier: should_retry_request_error, and the         *)
(* webhook's verdict on a reply (request_feishu).                          *)
(***************************************************************************)
FailKinds == {"http429", "http5xx", "http4xx", "connection", "timeout"}

\* a classifier that retries after every HTTP error status
should_retry_request_error_any_status(kind) ==
    kind \in {"http429", "http5xx", "http4xx", "connection", "timeout"}

should_retry_request_error(kind) ==
    kind \in {"http429", "http5xx", "connection", "timeout"}

\* what the failure of one attempt was: an HTTP 429 or 5xx, a connection error
\* or a timeout on one side, every other HTTP error status on the other
FailureClass(kind) == IF kind = "http4xx" THEN "terminal" ELSE "transient"

\* data.get("code", data.get("StatusCode", 0))
response_code(body) ==
    IF body.code # "absent" THEN body.code
    ELSE IF body.StatusCode # "absent" THEN body.StatusCode
    ELSE "0"

\* a verdict that looks at the transport and the JSON only, never at the code
request_feishu_ignoring_code(body) ==
    IF body.json = "nonjson" THEN "Feishu webhook returned non-JSON response"
    ELSE ""

\* "" when the reply is accepted, else the exception request_feishu raises
request_feishu(body) ==
    IF body.json = "nonjson" THEN "Feishu webhook returned non-JSON response"
    ELSE IF response_code(body) \notin {"0", "'0'", "null"}
    THEN "Feishu webhook rejected request"
    ELSE ""

(***************************************************************************)
(* What the environment can answer.                                        *)
(***************************************************************************)
Asset(sym, peg, shape, v) ==
    [symbol |-> sym, pegType |-> peg, circulating |-> [shape |-> shape, v |-> v]]

AssetsOk ==
    <<Asset(Sym("usdc", FALSE, FALSE), "peggedUSD", "scalar", 10),
      Asset(Sym("usdt", TRUE, FALSE), "peggedUSD", "dict", 60),
      Asset(Sym("eurs", TRUE, FALSE), "peggedEUR", "dict", 90),
      Asset(Sym("usdc", TRUE, TRUE), "peggedUSD", "dict", 30),
      Asset(Sym("", FALSE, TRUE), "peggedUSD", "dict", 70),
      Asset(Sym("dai", TRUE, FALSE), "peggedUSD", "junk", 0)>>

AssetsNoUsd == <<Asset(Sym("eurs", TRUE, FALSE), "peggedEUR", "dict", 90)>>

AssetsNoUsdc == <<Asset(Sym("usdt", TRUE, FALSE), "peggedUSD", "dict", 60)>>

PeggedPayloads ==
    {[shape |-> "nonjson", assets |-> <<>>], [shape |-> "nolist", assets |-> <<>>],
     [shape |-> "list", assets |-> AssetsOk], [shape |-> "list", assets |-> AssetsNoUsd],
     [shape |-> "list", assets |-> AssetsNoUsdc], [shape |-> "list", assets |-> <<>>]}

Point(tc, has, v) == [totalCirculating |-> tc, peggedUSD |-> [has |-> has, v |-> v]]

ChartPayloads ==
    {[shape |-> "nonjson", points |-> <<>>], [shape |-> "notlist", points |-> <<>>],
     [shape |-> "list", points |-> <<>>],
     [shape |-> "list", points |-> <<Point("dict", TRUE, 0), Point("dict", TRUE, 120)>>],
     [shape |-> "list", points |-> <<Point("dict", TRUE, 120), Point("missing", FALSE, 0)>>],
     [shape |-> "list", points |-> <<Point("dict", TRUE, 120), Point("dict", FALSE, 0)>>],
     [shape |-> "list", points |-> <<Point("dict", TRUE, 120), Point("dict", TRUE, 0)>>]}

ExecutePayloads == {"nonjson", "no_execution_id", "ok"}

SuccessStates == {"QUERY_STATE_COMPLETED", "QUERY_STATE_COMPLETED_PARTIAL"}
FailureStates == {"QUERY_STATE_FAILED", "QUERY_STATE_CANCELED", "QUERY_STATE_EXPIRED"}
OtherStates == {"QUERY_STATE_EXECUTING", "QUERY_STATE_UNRECOGNIZED"}

StatusPayload(json, state, fin, error) ==
    [json |-> json, state |-> state, is_execution_finished |-> fin, error |-> error]

NoPoll == StatusPayload("none", "", FALSE, "absent")

\* error: no error field, an error object without a message, one with a message
PollPayloads ==
    {StatusPayload("nonjson", "", FALSE, "absent")}
    \cup {StatusPayload("dict", st, fin, "absent") :
            st \in SuccessStates \cup OtherStates, fin \in BOOLEAN}
    \cup {StatusPayload("dict", st, fin, e) :
            st \in FailureStates, fin \in BOOLEAN, e \in {"absent", "nomessage", "message"}}

Row(isdict, hasSym, sym, hasVol, v) ==
    [isdict |-> isdict, symbol |-> [has |-> hasSym, sym |-> sym],
     volume |-> [has |-> hasVol, v |-> v]]

RowUsdc == Row(TRUE, TRUE, Sym("usdc", TRUE, TRUE), TRUE, 40)
RowUsdt == Row(TRUE, TRUE, Sym("usdt", TRUE, FALSE), TRUE, 60)
RowUsdcZero == Row(TRUE, TRUE, Sym("usdc", FALSE, FALSE), TRUE, 0)
RowOther == Row(TRUE, TRUE, Sym("busd", FALSE, FALSE), TRUE, 25)
RowNoVolume == Row(TRUE, TRUE, Sym("dai", FALSE, FALSE), FALSE, 0)
RowNotDict == Row(FALSE, FALSE, Sym("", FALSE, FALSE), FALSE, 0)

\* rows of a page that carries a cursor, rows of a page that carries none
InnerPageRows == {<<>>, <<RowOther, RowNotDict>>}

LastPageRows ==
    {<<>>, <<RowUsdc, RowNotDict, RowUsdt, RowOther>>, <<RowUsdcZero>>,
     <<RowUsdt>>, <<RowNoVolume>>}

\* result_payload.get("next_offset"): None, or the cursor of the next page
NoCursor == [present |-> FALSE, value |-> 0]
Cursor(n) == [present |-> TRUE, value |-> n]
Cursors == {Cursor(0), Cursor(DUNE_RESULT_PAGE_LIMIT)}

\* a results page: the shapes of "result" and "rows", the rows, the cursor
ResultPayload(json, result, rs, page_rows, next_offset) ==
    [json |-> json, result |-> result, rows |-> rs, page_rows |-> page_rows,
     next_offset |-> next_offset]

NoPage == ResultPayload("none", "missing", "missing", <<>>, NoCursor)

ResultPayloads ==
    {ResultPayload("nonjson", "missing", "missing", <<>>, NoCursor),
     ResultPayload("dict", "missing", "missing", <<>>, NoCursor),
     ResultPayload("dict", "dict", "notlist", <<>>, NoCursor)}
    \cup {ResultPayload("dict", "dict", "list", pr, c) : pr \in InnerPageRows, c \in Cursors}
    \cup {ResultPayload("dict", "dict", "list", pr, NoCursor) : pr \in LastPageRows}

CodeValues == {"absent", "null", "0", "'0'", "1"}

FeishuBodies ==
    {[json |-> "nonjson", code |-> "absent", StatusCode |-> "absent"]}
    \cup {[json |-> "dict", code |-> c, StatusCode |-> sc] :
            c \in CodeValues, sc \in {"absent", "0", "1"}}

Envs ==
    [DUNE_API_KEY : {"set", "unset"}, DUNE_QUERY_ID : {"int", "unset", "notint"},
     FEISHU_WEBHOOK_URL : {"set", "unset"}]

\* histories a store can hold before a run
OldMetrics ==
    [m \in MetricSet |->
        IF m = "total_supply_usd" THEN Float(100)
        ELSE IF m = "usdc_supply_usd" THEN Float(20)
        ELSE IF m = "usdc_supply_share" THEN Frac(20, 100)
        ELSE Frac(1, 2)]

OldEntry(k) == build_history_entry(0 - k, OldMetrics, <<>>)

NotARecord == [isdict |-> FALSE, run_time |-> 0, metrics |-> NoMetrics,
               missing_symbols |-> <<>>]

OldHistory(n) == [i \in 1..n |-> OldEntry(n + 1 - i)]

InitialFiles == {"missing", "blank", "badjson", "nonlist", "mixed", "full"}

InitialFile(name) ==
    IF name = "mixed" THEN FileOf("list", json_dumps(<<NotARecord, OldEntry(1)>>))
    ELSE IF name = "full" THEN FileOf("list", json_dumps(OldHistory(MAX_HISTORY_ITEMS)))
    ELSE FileOf(name, <<>>)

\* how a reply reads to the sender: the webhook answers an HTTP-successful POST
\* with a body; no HTTP-successful answer at all is "transport"
ReplyClass(body) ==
    IF body.json = "nonjson" THEN "nonjson"
    ELSE IF response_code(body) \in {"0", "'0'", "null"} THEN "zero"
    ELSE "nonzero"

(***************************************************************************)
(* Control.  A callee's locals are gone once it has returned or raised,    *)
(* run_report's once it has returned; the except block reads only          *)
(* webhook_url, partial_metrics, missing_symbols and the window.           *)
(***************************************************************************)
persistent == <<file, initial, appended, run>>
calls == <<args, returned, writing, observed, invocations>>
program ==
    <<file, initial, appended, run, pc, attempt, webhook_url, pegged_assets, chart_points,
      top_symbols, computed, partial_metrics, missing_symbols, window, polls, sleeps,
      last_poll, last_page, last_failure, pages, offset, rows, history, wow_map,
      error_message, failed_at, last_reply, sent, notify_error, exit_code>>
outcome == <<error_message, failed_at, notify_error, exit_code>>
kept == <<webhook_url, computed, partial_metrics, missing_symbols, window>>
supply == <<pegged_assets, chart_points, top_symbols>>
polling == <<polls, sleeps>>
paging == <<pages, offset, rows>>
hist == <<history, wow_map>>

CallPcs ==
    {"stablecoins", "chart", "execute", "poll", "results",
     "send_card", "send_text", "fail_card", "fail_text"}

WebhookPcs == {"send_card", "send_text", "fail_card", "fail_text"}

ReportOf(p) == IF p \in {"send_card", "send_text"} THEN "success" ELSE "failure"
FormOf(p) == IF p \in {"send_card", "fail_card"} THEN "card" ELSE "text"

\* one finished request_feishu call: what was posted and whether it was accepted
Message(p, accepted) ==
    [report |-> ReportOf(p), form |-> FormOf(p), accepted |-> accepted,
     metrics |-> partial_metrics]

Goto(p) ==
    /\ pc' = p
    /\ attempt' = 1
    /\ UNCHANGED <<outcome, sent>>

NoSupply == pegged_assets' = <<>> /\ chart_points' = <<>> /\ top_symbols' = <<>>
NoPolling == polls' = 0 /\ sleeps' = 0
NoPaging == pages' = 0 /\ offset' = 0 /\ rows' = <<>>
NoHist == history' = <<>> /\ wow_map' = NoWow

NoKept ==
    /\ webhook_url' = "unset"
    /\ computed' = NoMetrics
    /\ partial_metrics' = NoMetrics
    /\ missing_symbols' = <<>>
    /\ window' = FALSE

\* the "except Exception" of run_report catches e
ToExcept(e) ==
    /\ pc' = "except"
    /\ attempt' = 1
    /\ error_message' = e
    /\ failed_at' = pc
    /\ UNCHANGED <<notify_error, exit_code>>
    /\ NoSupply /\ NoPolling /\ NoPaging /\ NoHist

\* run_report returns code
Finish(code) ==
    /\ pc' = "done"
    /\ attempt' = 1
    /\ exit_code' = code
    /\ NoSupply /\ NoPolling /\ NoPaging /\ NoHist

\* a failure path that starts the failure notification again when its
\* plain-text fallback failed
Throw_renotifying(e) ==
    IF pc = "send_card" \/ pc = "fail_card"
    THEN /\ pc' = (IF pc = "send_card" THEN "send_text" ELSE "fail_text")
         /\ attempt' = 1
         /\ sent' = Append(sent, Message(pc, FALSE))
         /\ UNCHANGED <<outcome, supply, polling, paging, hist>>
    ELSE IF pc = "send_text"
    THEN /\ ToExcept(e)
         /\ sent' = Append(sent, Message(pc, FALSE))
    ELSE IF pc = "fail_text"
    THEN /\ pc' = "fail_card"
         /\ attempt' = 1
         /\ sent' = Append(sent, Message(pc, FALSE))
         /\ UNCHANGED <<outcome, supply, polling, paging, hist>>
    ELSE /\ ToExcept(e)
         /\ UNCHANGED sent

\* an exception e raised by the statement at pc: everything but kept,
\* last_poll, last_reply and the persistent state
Throw(e) ==
    IF pc = "send_card" \/ pc = "fail_card"
    THEN \* send_feishu_message: "card send failed, retrying as text"
         /\ pc' = (IF pc = "send_card" THEN "send_text" ELSE "fail_text")
         /\ attempt' = 1
         /\ sent' = Append(sent, Message(pc, FALSE))
         /\ UNCHANGED <<outcome, supply, polling, paging, hist>>
    ELSE IF pc = "send_text"
    THEN /\ ToExcept(e)
         /\ sent' = Append(sent, Message(pc, FALSE))
    ELSE IF pc = "fail_text"
    THEN \* "Failed to send failure notification", then return 1
         /\ Finish(1)
         /\ sent' = Append(sent, Message(pc, FALSE))
         /\ notify_error' = e
         /\ UNCHANGED <<error_message, failed_at>>
    ELSE /\ ToExcept(e)
         /\ UNCHANGED sent

\* kept by every step but the one that returns from run_report
KeptUnlessReturning == IF pc = "fail_text" THEN NoKept ELSE UNCHANGED kept

\* no function is called on its own while run_report runs
NoCall == [fn |-> ""]
NotReturned == [done |-> FALSE]
Returned(v) == [done |-> TRUE, value |-> v]

\* no write of the history file is under way and no other process has read it
NotRead == [kind |-> "unread", items |-> <<>>]
Unobserved == writing = "closed" /\ observed = NotRead /\ invocations = <<>>

(***************************************************************************)
(* Init and the actions of run_report.                                     *)
(***************************************************************************)
\* run_report is not running
Idle ==
    /\ appended = <<>>
    /\ run = 0
    /\ pc = "idle"
    /\ attempt = 1
    /\ webhook_url = "unset"
    /\ pegged_assets = <<>>
    /\ chart_points = <<>>
    /\ top_symbols = <<>>
    /\ computed = NoMetrics
    /\ partial_metrics = NoMetrics
    /\ missing_symbols = <<>>
    /\ window = FALSE
    /\ polls = 0
    /\ sleeps = 0
    /\ last_poll = NoPoll
    /\ last_page = NoPage
    /\ last_failure = ""
    /\ pages = 0
    /\ offset = 0
    /\ rows = <<>>
    /\ history = <<>>
    /\ wow_map = NoWow
    /\ error_message = ""
    /\ failed_at = ""
    /\ last_reply = ""
    /\ sent = <<>>
    /\ notify_error = ""
    /\ exit_code = -1

Init ==
    /\ initial \in InitialFiles
    /\ file = InitialFile(initial)
    /\ Idle
    /\ args = NoCall
    /\ returned = NotReturned
    /\ Unobserved

\* should_run_now is false: "Exiting without work", return 0
SkipRun ==
    /\ pc \in {"idle", "done", "skipped"}
    /\ last_failure' = ""
    /\ run < MaxRuns
    /\ run' = run + 1
    /\ pc' = "skipped"
    /\ sent' = <<>>
    /\ last_reply' = ""
    /\ error_message' = ""
    /\ failed_at' = ""
    /\ notify_error' = ""
    /\ exit_code' = 0
    /\ UNCHANGED <<file, initial, appended, calls, attempt, last_poll, last_page>>
    /\ UNCHANGED <<kept, supply, polling, paging, hist>>

\* should_run_now is true; the required environment is read inside the try
StartRun ==
    /\ pc \in {"idle", "done", "skipped"}
    /\ last_failure' = ""
    /\ run < MaxRuns
    /\ run' = run + 1
    /\ sent' = <<>>
    /\ last_reply' = ""
    /\ notify_error' = ""
    /\ exit_code' = -1
    /\ \E env \in Envs :
        /\ webhook_url' = env.FEISHU_WEBHOOK_URL
        /\ IF env.DUNE_API_KEY = "unset"
           THEN /\ pc' = "except"
                /\ error_message' = "Missing required environment variable: DUNE_API_KEY"
                /\ failed_at' = "env"
           ELSE IF env.DUNE_QUERY_ID = "unset"
           THEN /\ pc' = "except"
                /\ error_message' = "Missing required environment variable: DUNE_QUERY_ID"
                /\ failed_at' = "env"
           ELSE IF env.DUNE_QUERY_ID = "notint"
           THEN /\ pc' = "except"
                /\ error_message' = "invalid literal for int()"
                /\ failed_at' = "env"
           ELSE IF env.FEISHU_WEBHOOK_URL = "unset"
           THEN /\ pc' = "except"
                /\ error_message' = "Missing required environment variable: FEISHU_WEBHOOK_URL"
                /\ failed_at' = "env"
           ELSE /\ pc' = "stablecoins"
                /\ error_message' = ""
                /\ failed_at' = ""
    /\ UNCHANGED <<file, initial, appended, calls, attempt, last_poll, last_page>>
    /\ UNCHANGED <<computed, partial_metrics, missing_symbols, window>>
    /\ UNCHANGED <<supply, polling, paging, hist>>

\* perform_request: the attempt failed, the failure is retryable, attempts remain
RetryRequest ==
    /\ pc \in CallPcs
    /\ attempt < MAX_ATTEMPTS
    /\ \E kind \in FailKinds :
        /\ should_retry_request_error(kind)
        /\ last_failure' = FailureClass(kind)
    /\ attempt' = attempt + 1
    /\ last_poll' = NoPoll /\ last_page' = NoPage
    /\ last_reply' = ""
    /\ UNCHANGED <<pc, outcome, sent>>
    /\ UNCHANGED <<persistent, calls, kept, supply, polling, paging, hist>>

\* perform_request: the attempt failed and is not retried (reraise=True)
RequestRaises ==
    /\ pc \in CallPcs
    /\ \E kind \in FailKinds :
        /\ ~should_retry_request_error(kind) \/ attempt >= MAX_ATTEMPTS
        /\ last_failure' = FailureClass(kind)
        /\ Throw(kind)
    /\ last_poll' = NoPoll /\ last_page' = NoPage
    /\ last_reply' = (IF pc \in WebhookPcs THEN "transport" ELSE "")
    /\ KeptUnlessReturning
    /\ UNCHANGED <<persistent, calls, calls>>

\* a run that submits the volume query as soon as the asset list is there
StablecoinsReturns_then_submit ==
    /\ pc = "stablecoins"
    /\ last_failure' = ""
    /\ \E payload \in PeggedPayloads :
        IF payload.shape = "nonjson"
        THEN Throw("Invalid JSON response")
        ELSE IF payload.shape # "list"
        THEN Throw("Unexpected DefiLlama stablecoins response structure")
        ELSE /\ pegged_assets' = payload.assets
             /\ Goto("execute")
             /\ UNCHANGED <<chart_points, top_symbols, polling, paging, hist>>
    /\ UNCHANGED <<persistent, calls, kept, last_poll, last_page, last_reply>>

\* fetch_defillama_stablecoins
StablecoinsReturns ==
    /\ pc = "stablecoins"
    /\ last_failure' = ""
    /\ \E payload \in PeggedPayloads :
        IF payload.shape = "nonjson"
        THEN Throw("Invalid JSON response")
        ELSE IF payload.shape # "list"
        THEN Throw("Unexpected DefiLlama stablecoins response structure")
        ELSE /\ pegged_assets' = payload.assets
             /\ Goto("chart")
             /\ UNCHANGED <<chart_points, top_symbols, polling, paging, hist>>
    /\ UNCHANGED <<persistent, calls, kept, last_poll, last_page, last_reply>>

\* fetch_defillama_total_chart
ChartReturns ==
    /\ pc = "chart"
    /\ last_failure' = ""
    /\ \E payload \in ChartPayloads :
        IF payload.shape = "nonjson"
        THEN Throw("Invalid JSON response")
        ELSE IF payload.shape # "list" \/ payload.points = <<>>
        THEN Throw("Unexpected DefiLlama chart response structure")
        ELSE /\ chart_points' = payload.points
             /\ Goto("supply_metrics")
             /\ UNCHANGED <<pegged_assets, top_symbols, polling, paging, hist>>
    /\ UNCHANGED <<persistent, calls, kept, last_poll, last_page, last_reply>>

\* run_report, from build_top20_symbols_and_usdc_supply to get_report_window
ComputeSupplyMetrics ==
    /\ pc = "supply_metrics"
    /\ last_failure' = ""
    /\ LET top == build_top20_symbols_and_usdc_supply(pegged_assets)
           total == get_total_supply_usd(chart_points)
       IN  IF ~top.ok
           THEN /\ Throw(top.err)
                /\ UNCHANGED <<computed, partial_metrics, window>>
           ELSE IF ~total.ok
           THEN /\ Throw(total.err)
                /\ computed' =
                     [computed EXCEPT !["usdc_supply_usd"] = Float(top.val.usdc_supply_usd)]
                /\ UNCHANGED <<partial_metrics, window>>
           ELSE /\ top_symbols' = top.val.top_symbols
                /\ partial_metrics' =
                     [partial_metrics EXCEPT
                        !["total_supply_usd"] = Float(total.val),
                        !["usdc_supply_usd"] = Float(top.val.usdc_supply_usd),
                        !["usdc_supply_share"] = Frac(top.val.usdc_supply_usd, total.val)]
                /\ computed' =
                     [computed EXCEPT
                        !["total_supply_usd"] = Float(total.val),
                        !["usdc_supply_usd"] = Float(top.val.usdc_supply_usd),
                        !["usdc_supply_share"] = Frac(top.val.usdc_supply_usd, total.val)]
                /\ window' = TRUE
                /\ Goto("execute")
                /\ UNCHANGED <<pegged_assets, chart_points, polling, paging, hist>>
    /\ UNCHANGED <<persistent, calls, webhook_url, missing_symbols, last_poll, last_page, last_reply>>

(***************************************************************************)
(* Volume Query Client: execute_dune_query, wait_for_dune_execution,       *)
(* fetch_dune_result_rows.                                                 *)
(***************************************************************************)
ExecuteReturns ==
    /\ pc = "execute"
    /\ last_failure' = ""
    /\ \E payload \in ExecutePayloads :
        IF payload = "nonjson"
        THEN Throw("Invalid JSON response")
        ELSE IF payload = "no_execution_id"
        THEN Throw("Dune execute response is missing execution_id")
        ELSE /\ polls' = 1
             /\ Goto("poll")
             /\ UNCHANGED <<sleeps, supply, paging, hist>>
    /\ UNCHANGED <<persistent, calls, kept, last_poll, last_page, last_reply>>

format_dune_error(status_payload) ==
    IF status_payload.error = "message" THEN "provider error message"
    ELSE "Dune query execution failed with state " \o status_payload.state

\* a loop body without the check for the failure states
PollOutcome_without_failure_states(status_payload, attempt_index) ==
    IF status_payload.json = "nonjson" THEN [do |-> "raise", err |-> "Invalid JSON response"]
    ELSE IF status_payload.state \in SuccessStates THEN [do |-> "return", err |-> ""]
    ELSE IF status_payload.is_execution_finished
    THEN [do |-> "raise", err |-> "Dune execution finished in unexpected state"]
    ELSE IF attempt_index < DUNE_MAX_POLLS - 1 THEN [do |-> "sleep", err |-> ""]
    ELSE [do |-> "raise", err |-> "Dune query execution timed out"]

\* a loop body that sleeps after every poll, the last one included
PollOutcome_sleeping_after_last(status_payload, attempt_index) ==
    IF status_payload.json = "nonjson" THEN [do |-> "raise", err |-> "Invalid JSON response"]
    ELSE IF status_payload.state \in SuccessStates THEN [do |-> "return", err |-> ""]
    ELSE IF status_payload.state \in FailureStates
    THEN [do |-> "raise", err |-> format_dune_error(status_payload)]
    ELSE IF status_payload.is_execution_finished
    THEN [do |-> "raise", err |-> "Dune execution finished in unexpected state"]
    ELSE IF attempt_index < DUNE_MAX_POLLS THEN [do |-> "sleep", err |-> ""]
    ELSE [do |-> "raise", err |-> "Dune query execution timed out"]

\* a loop body that looks at the finished flag before the state
PollOutcome_finished_first(status_payload, attempt_index) ==
    IF status_payload.json = "nonjson" THEN [do |-> "raise", err |-> "Invalid JSON response"]
    ELSE IF status_payload.is_execution_finished
    THEN [do |-> "raise", err |-> "Dune execution finished in unexpected state"]
    ELSE IF status_payload.state \in SuccessStates THEN [do |-> "return", err |-> ""]
    ELSE IF status_payload.state \in FailureStates
    THEN [do |-> "raise", err |-> format_dune_error(status_payload)]
    ELSE IF attempt_index < DUNE_MAX_POLLS - 1 THEN [do |-> "sleep", err |-> ""]
    ELSE [do |-> "raise", err |-> "Dune query execution timed out"]

\* what one pass of the loop body does with a status payload: "return", "sleep"
\* or "raise" with the exception; attempt_index is the loop variable
PollOutcome(status_payload, attempt_index) ==
    IF status_payload.json = "nonjson" THEN [do |-> "raise", err |-> "Invalid JSON response"]
    ELSE IF status_payload.state \in SuccessStates THEN [do |-> "return", err |-> ""]
    ELSE IF status_payload.state \in FailureStates
    THEN [do |-> "raise", err |-> format_dune_error(status_payload)]
    ELSE IF status_payload.is_execution_finished
    THEN [do |-> "raise", err |-> "Dune execution finished in unexpected state"]
    ELSE IF attempt_index < DUNE_MAX_POLLS - 1 THEN [do |-> "sleep", err |-> ""]
    ELSE [do |-> "raise", err |-> "Dune query execution timed out"]

\* the status request of loop pass number polls (attempt = polls - 1) returned;
\* last_poll shows the payload for one step
PollReturns ==
    /\ pc = "poll"
    /\ last_failure' = ""
    /\ \E status_payload \in PollPayloads :
        LET out == PollOutcome(status_payload, polls - 1)
        IN  /\ last_poll' = status_payload
            /\ last_page' = NoPage
            /\ IF out.do = "raise"
               THEN Throw(out.err)
               ELSE IF out.do = "return"
               THEN /\ Goto("results")
                    /\ NoPolling
                    /\ pages' = 1
                    /\ UNCHANGED <<offset, rows, supply, hist>>
               ELSE /\ Goto("sleep")
                    /\ UNCHANGED <<polling, paging, supply, hist>>
    /\ UNCHANGED <<persistent, calls, kept, last_reply>>

\* time.sleep(DUNE_POLL_INTERVAL_SECONDS), then the next pass of the loop
Sleep ==
    /\ pc = "sleep"
    /\ last_failure' = ""
    /\ sleeps' = sleeps + 1
    /\ polls' = polls + 1
    /\ last_poll' = NoPoll /\ last_page' = NoPage
    /\ Goto("poll")
    /\ UNCHANGED <<persistent, calls, kept, supply, paging, hist, last_reply>>

RECURSIVE DictRows(_)
DictRows(page_rows) ==
    IF page_rows = <<>> THEN <<>>
    ELSE IF Head(page_rows).isdict THEN <<Head(page_rows)>> \o DictRows(Tail(page_rows))
         ELSE DictRows(Tail(page_rows))

\* a loop that also stops after a page without rows
ResultsReturns_stopping_on_empty_page ==
    /\ pc = "results"
    /\ last_failure' = ""
    /\ \E payload \in ResultPayloads :
        LET all == rows \o DictRows(payload.page_rows)
            more == payload.next_offset.present /\ payload.page_rows # <<>>
            bad == IF payload.json = "nonjson" THEN "Invalid JSON response"
                   ELSE IF payload.result # "dict"
                   THEN "Dune result payload is missing result rows"
                   ELSE IF payload.rows # "list"
                   THEN "Dune result payload has invalid rows structure"
                   ELSE IF ~more /\ all = <<>>
                   THEN "Dune query returned no rows"
                   ELSE ""
        IN  /\ last_page' = payload
            /\ IF bad # ""
               THEN Throw(bad)
               ELSE IF more
               THEN /\ pages < MaxPages \/ all = rows
                    /\ rows' = all
                    /\ offset' = payload.next_offset.value
                    /\ pages' = (IF pages < MaxPages THEN pages + 1 ELSE pages)
                    /\ Goto("results")
                    /\ UNCHANGED <<supply, polling, hist>>
               ELSE /\ rows' = all
                    /\ pages' = 0
                    /\ offset' = 0
                    /\ Goto("reconcile")
                    /\ UNCHANGED <<supply, polling, hist>>
    /\ last_poll' = NoPoll
    /\ UNCHANGED <<persistent, calls, kept, last_reply>>

\* one results page returned; rows lives on as dune_rows after the last page.
\* pages counts the requests up to MaxPages; past that bound the loop goes on
\* only with pages that add no row
ResultsReturns ==
    /\ pc = "results"
    /\ last_failure' = ""
    /\ \E payload \in ResultPayloads :
        LET all == rows \o DictRows(payload.page_rows)
            bad == IF payload.json = "nonjson" THEN "Invalid JSON response"
                   ELSE IF payload.result # "dict"
                   THEN "Dune result payload is missing result rows"
                   ELSE IF payload.rows # "list"
                   THEN "Dune result payload has invalid rows structure"
                   ELSE IF ~payload.next_offset.present /\ all = <<>>
                   THEN "Dune query returned no rows"
                   ELSE ""
        IN  /\ last_page' = payload
            /\ IF bad # ""
               THEN Throw(bad)
               ELSE IF payload.next_offset.present
               THEN /\ pages < MaxPages \/ all = rows
                    /\ rows' = all
                    /\ offset' = payload.next_offset.value
                    /\ pages' = (IF pages < MaxPages THEN pages + 1 ELSE pages)
                    /\ Goto("results")
                    /\ UNCHANGED <<supply, polling, hist>>
               ELSE /\ rows' = all
                    /\ pages' = 0
                    /\ offset' = 0
                    /\ Goto("reconcile")
                    /\ UNCHANGED <<supply, polling, hist>>
    /\ last_poll' = NoPoll
    /\ UNCHANGED <<persistent, calls, kept, last_reply>>

\* a run that goes on to the history without a usable USDC volume share
Reconcile_without_volume_check ==
    /\ pc = "reconcile"
    /\ last_failure' = ""
    /\ LET totals == extract_dune_symbol_totals(rows)
           share == compute_dune_share(totals.val, top_symbols)
       IN  IF ~totals.ok
           THEN Throw(totals.err) /\ UNCHANGED <<computed, partial_metrics, missing_symbols>>
           ELSE IF ~share.ok
           THEN Throw(share.err) /\ UNCHANGED <<computed, partial_metrics, missing_symbols>>
           ELSE /\ missing_symbols' = share.val.missing_symbols
                /\ partial_metrics' =
                     [partial_metrics EXCEPT
                        !["usdc_transfer_volume_share_7d"] = share.val.share]
                /\ computed' =
                     [computed EXCEPT !["usdc_transfer_volume_share_7d"] = share.val.share]
                /\ Goto("load_history")
                /\ rows' = <<>>
                /\ UNCHANGED <<pages, offset, supply, polling, hist>>
    /\ UNCHANGED <<persistent, calls, webhook_url, window, last_poll, last_page, last_reply>>

\* run_report, from extract_dune_symbol_totals to the volume_share check;
\* dune_rows is not read again
Reconcile ==
    /\ pc = "reconcile"
    /\ last_failure' = ""
    /\ LET totals == extract_dune_symbol_totals(rows)
           share == compute_dune_share(totals.val, top_symbols)
       IN  IF ~totals.ok
           THEN Throw(totals.err) /\ UNCHANGED <<computed, partial_metrics, missing_symbols>>
           ELSE IF ~share.ok
           THEN Throw(share.err) /\ UNCHANGED <<computed, partial_metrics, missing_symbols>>
           ELSE /\ missing_symbols' = share.val.missing_symbols
                /\ partial_metrics' =
                     [partial_metrics EXCEPT
                        !["usdc_transfer_volume_share_7d"] = share.val.share]
                /\ computed' =
                     [computed EXCEPT !["usdc_transfer_volume_share_7d"] = share.val.share]
                /\ IF ~share.val.share.avail
                   THEN Throw("Dune query result did not include usable USDC transfer volume data")
                   ELSE /\ Goto("load_history")
                        /\ rows' = <<>>
                        /\ UNCHANGED <<pages, offset, supply, polling, hist>>
    /\ UNCHANGED <<persistent, calls, webhook_url, window, last_poll, last_page, last_reply>>

(***************************************************************************)
(* run_report: history, notification, failure reporting.                   *)
(***************************************************************************)
\* load_history .. history.append(entry)
LoadHistory ==
    /\ pc = "load_history"
    /\ last_failure' = ""
    /\ LET loaded == load_history(file)
       IN  IF ~loaded.ok
           THEN Throw(loaded.err)
           ELSE /\ wow_map' = build_wow_map(partial_metrics, get_previous_metrics(loaded.val))
                /\ history' =
                     Append(loaded.val,
                            build_history_entry(run, partial_metrics, missing_symbols))
                /\ Goto("save_history")
                /\ UNCHANGED <<supply, polling, paging>>
    /\ UNCHANGED <<persistent, calls, kept, last_poll, last_page, last_reply>>

\* save_history(HISTORY_PATH, history)
SaveHistory ==
    /\ pc = "save_history"
    /\ last_failure' = ""
    /\ file' = save_history(history)
    /\ appended' = Append(appended, history[Len(history)])
    /\ Goto("send_card")
    /\ UNCHANGED <<initial, run, calls, kept, supply, polling, paging, hist, last_poll, last_page, last_reply>>

\* the except block up to notify_failure's first statement
HandleFailure ==
    /\ pc = "except"
    /\ last_failure' = ""
    /\ IF webhook_url = "unset"
       THEN \* "skipping failure notification", return 1
            /\ Finish(1)
            /\ NoKept
       ELSE /\ pc' = "fail_card"
            /\ UNCHANGED <<attempt, exit_code, kept, supply, polling, paging, hist>>
    /\ last_poll' = NoPoll /\ last_page' = NoPage
    /\ last_reply' = ""
    /\ UNCHANGED <<error_message, failed_at, notify_error, sent>>
    /\ UNCHANGED <<persistent, calls, calls>>

\* a run that returns 0 once any report, the failure report too, was accepted
WebhookReturns_returning_zero ==
    /\ pc \in WebhookPcs
    /\ last_failure' = ""
    /\ \E body \in FeishuBodies :
        LET why == request_feishu(body)
        IN  /\ last_reply' = ReplyClass(body)
            /\ IF why # ""
               THEN Throw(why) /\ KeptUnlessReturning
               ELSE /\ sent' = Append(sent, Message(pc, TRUE))
                    /\ Finish(0)
                    /\ NoKept
                    /\ UNCHANGED <<error_message, failed_at, notify_error>>
    /\ UNCHANGED <<persistent, calls, last_poll, last_page>>

\* request_feishu got an HTTP-successful reply
WebhookReturns ==
    /\ pc \in WebhookPcs
    /\ last_failure' = ""
    /\ \E body \in FeishuBodies :
        LET why == request_feishu(body)
        IN  /\ last_reply' = ReplyClass(body)
            /\ IF why # ""
               THEN Throw(why) /\ KeptUnlessReturning
               ELSE /\ sent' = Append(sent, Message(pc, TRUE))
                    /\ Finish(IF ReportOf(pc) = "success" THEN 0 ELSE 1)
                    /\ NoKept
                    /\ UNCHANGED <<error_message, failed_at, notify_error>>
    /\ UNCHANGED <<persistent, calls, last_poll, last_page>>

Next ==
    \/ SkipRun
    \/ StartRun
    \/ RetryRequest
    \/ RequestRaises
    \/ StablecoinsReturns
    \/ ChartReturns
    \/ ComputeSupplyMetrics
    \/ ExecuteReturns
    \/ PollReturns
    \/ Sleep
    \/ ResultsReturns
    \/ Reconcile
    \/ LoadHistory
    \/ SaveHistory
    \/ HandleFailure
    \/ WebhookReturns

Spec == Init /\ [][Next]_vars

\* every step of Next but ComputeSupplyMetrics
RequestsAndSteps ==
    \/ SkipRun
    \/ StartRun
    \/ RetryRequest
    \/ RequestRaises
    \/ StablecoinsReturns
    \/ ChartReturns
    \/ ExecuteReturns
    \/ PollReturns
    \/ Sleep
    \/ ResultsReturns
    \/ Reconcile
    \/ LoadHistory
    \/ SaveHistory
    \/ HandleFailure
    \/ WebhookReturns

\* run_report is one thread that goes on whenever it can take a step, and
\* every request is answered or fails: weak fairness of Next.  The step
\* ComputeSupplyMetrics is enabled exactly while pc = "supply_metrics" and
\* leaves that position, so its fairness is stated on pc
LiveSpec ==
    /\ Spec
    /\ WF_vars(RequestsAndSteps)
    /\ []<>(pc # "supply_metrics")

(***************************************************************************)
(* Functions called on their own, on arguments drawn from bounded sets.    *)
(***************************************************************************)
\* the duplicate-free sequences of at most n elements of S
DistinctSeqs(S, n) ==
    {q \in UNION {[1..k -> S] : k \in 0..n} : \A i, j \in 1..Len(q) : q[i] = q[j] => i = j}

NoFile == initial = "missing" /\ file = InitialFile(initial)

VolumeSymbols == {NormSym("usdc"), NormSym("usdt"), NormSym("dai"), NormSym("busd")}
Volumes == {0, 40, 60}

ShareCalls ==
    {[fn |-> "compute_dune_share", dune_symbol_totals |-> t, symbols |-> l] :
        t \in UNION {[S -> Volumes] : S \in SUBSET VolumeSymbols},
        l \in DistinctSeqs(VolumeSymbols \ {NormSym("busd")}, MaxTop)}

ShareInit == NoFile /\ Idle /\ args \in ShareCalls /\ returned = NotReturned /\ Unobserved

Call_compute_dune_share ==
    /\ args.fn = "compute_dune_share"
    /\ ~returned.done
    /\ returned' = Returned(compute_dune_share(args.dune_symbol_totals, args.symbols))
    /\ UNCHANGED <<program, args, writing, observed, invocations>>

ShareSpec == ShareInit /\ [][Call_compute_dune_share]_vars

\* asset records: "usdc" in three spellings, two assets of equal value, a
\* blank symbol, a record that is not USD-pegged, a circulating value that is
\* no number
AssetPool ==
    {Asset(Sym("usdc", FALSE, FALSE), "peggedUSD", "dict", 10),
     Asset(Sym("usdc", TRUE, TRUE), "peggedUSD", "dict", 30),
     Asset(Sym("usdc", TRUE, FALSE), "peggedUSD", "scalar", 20),
     Asset(Sym("usdt", TRUE, FALSE), "peggedUSD", "dict", 20),
     Asset(Sym("usdt", FALSE, TRUE), "peggedUSD", "dict", 60),
     Asset(Sym("dai", TRUE, FALSE), "peggedUSD", "dict", 40),
     Asset(Sym("dai", TRUE, FALSE), "peggedUSD", "junk", 0),
     Asset(Sym("", FALSE, TRUE), "peggedUSD", "dict", 70),
     Asset(Sym("usdc", TRUE, FALSE), "peggedEUR", "dict", 90)}

Tickers ==
    <<"t01", "t02", "t03", "t04", "t05", "t06", "t07", "t08", "t09", "t10", "t11",
      "t12", "t13", "t14", "t15", "t16", "t17", "t18", "t19", "t20", "t21">>

\* more than TOP_N assets of rising value, then USDC with usdc_value
ManyAssets(usdc_value) ==
    [i \in 1..Len(Tickers) + 1 |->
        IF i <= Len(Tickers)
        THEN Asset(Sym(Tickers[i], TRUE, FALSE), "peggedUSD", "dict", 100 + i)
        ELSE Asset(Sym("usdc", TRUE, FALSE), "peggedUSD", "dict", usdc_value)]

SupplyCalls ==
    {[fn |-> "build_top20_symbols_and_usdc_supply", pegged_assets |-> l] :
        l \in UNION {[1..k -> AssetPool] : k \in 0..MaxAssets}
              \cup {ManyAssets(50), ManyAssets(200)}}

SupplyInit == NoFile /\ Idle /\ args \in SupplyCalls /\ returned = NotReturned /\ Unobserved

Call_build_top20_symbols_and_usdc_supply ==
    /\ args.fn = "build_top20_symbols_and_usdc_supply"
    /\ ~returned.done
    /\ returned' = Returned(build_top20_symbols_and_usdc_supply(args.pegged_assets))
    /\ UNCHANGED <<program, args, writing, observed, invocations>>

SupplySpec == SupplyInit /\ [][Call_build_top20_symbols_and_usdc_supply]_vars

\* metric values: None, amounts 0, 50, 100, ..., shares 0.30, 0.35, ..., a
\* third and a negative amount
WowValues ==
    {None, Frac(1, 3), Float(-50)}
        \cup {Float(50 * n) : n \in 0..MaxUnits}
        \cup {Frac(6 + n, 20) : n \in 0..MaxUnits}

\* the two currency metrics hold one value, the two share metrics another
MetricsOf(currency, share) ==
    [m \in MetricSet |-> IF METRIC_SPECS[m] = "currency" THEN currency ELSE share]

\* previous_metrics is None when the history holds no entry
WowCalls ==
    {[fn |-> "build_wow_map", current_metrics |-> MetricsOf(a, b),
      previous_metrics |-> [has |-> TRUE, metrics |-> MetricsOf(c, d)]] :
        a \in WowValues, b \in WowValues, c \in WowValues, d \in WowValues}
    \cup
    {[fn |-> "build_wow_map", current_metrics |-> MetricsOf(a, b),
      previous_metrics |-> [has |-> FALSE, metrics |-> NoMetrics]] :
        a \in WowValues, b \in WowValues}

WowInit == NoFile /\ Idle /\ args \in WowCalls /\ returned = NotReturned /\ Unobserved

Call_build_wow_map ==
    /\ args.fn = "build_wow_map"
    /\ ~returned.done
    /\ returned' = Returned(build_wow_map(args.current_metrics, args.previous_metrics))
    /\ UNCHANGED <<program, args, writing, observed, invocations>>

WowSpec == WowInit /\ [][Call_build_wow_map]_vars

\* entries of a history list: every metric known, none known, some known
\* with symbols missing
EntryPool ==
    {OldEntry(1),
     build_history_entry(2, NoMetrics, <<>>),
     build_history_entry(3, [OldMetrics EXCEPT !["usdc_transfer_volume_share_7d"] = None],
                         <<NormSym("dai")>>),
     build_history_entry(4, [NoMetrics EXCEPT !["total_supply_usd"] = Float(0)], <<>>)}

\* short lists of any entries, a list of exactly 52 and one of 53
HistoryCalls ==
    {[fn |-> "save_history", history |-> h] :
        h \in UNION {[1..k -> EntryPool] : k \in 0..MaxEntries}
              \cup {OldHistory(MAX_HISTORY_ITEMS), OldHistory(MAX_HISTORY_ITEMS + 1)}}

RoundTripInit == NoFile /\ Idle /\ args \in HistoryCalls /\ returned = NotReturned /\ Unobserved

\* save_history(path, history) where no file is yet
Call_save_history ==
    /\ args.fn = "save_history"
    /\ file.kind = "missing"
    /\ file' = save_history(args.history)
    /\ UNCHANGED <<initial, appended, run, pc, attempt, kept, supply, polling, paging,
                   hist, outcome, last_poll, last_page, last_failure, last_reply, sent,
                   calls>>

\* load_history(path) of the file just saved
Call_load_history ==
    /\ args.fn = "save_history"
    /\ file.kind # "missing"
    /\ ~returned.done
    /\ returned' = Returned(load_history(file))
    /\ UNCHANGED <<program, args, writing, observed, invocations>>

RoundTripSpec == RoundTripInit /\ [][Call_save_history \/ Call_load_history]_vars

\* save_history while another process reads HISTORY_PATH.  Path.write_text
\* opens the file for writing, which empties it, writes the text, which the
\* system may take in more than one piece, and closes it.
WriteInit ==
    /\ initial \in {"missing", "mixed", "full"}
    /\ file = InitialFile(initial)
    /\ Idle
    /\ args \in HistoryCalls
    /\ returned = NotReturned
    /\ Unobserved

WriteStep(position, content, result) ==
    /\ writing' = position
    /\ file' = content
    /\ returned' = result
    /\ UNCHANGED <<initial, appended, run, pc, attempt, kept, supply, polling, paging,
                   hist, outcome, last_poll, last_page, last_failure, last_reply, sent,
                   args, observed, invocations>>

\* open(path, "w")
Open_history_file ==
    /\ args.fn = "save_history"
    /\ ~returned.done
    /\ writing = "closed"
    /\ WriteStep("opened", FileOf("blank", <<>>), returned)

\* a first piece of the text reaches the file: not yet a JSON document
Write_part_of_history ==
    /\ writing = "opened"
    /\ WriteStep("partial", FileOf("badjson", <<>>), returned)

\* the rest of the text reaches the file, which is closed
Write_rest_of_history ==
    /\ writing \in {"opened", "partial"}
    /\ WriteStep("closed", save_history(args.history), Returned("None"))

\* another process reads the file
Read_history_file ==
    /\ args.fn = "save_history"
    /\ observed' = file
    /\ UNCHANGED <<program, args, returned, writing, invocations>>

WriteSpec ==
    WriteInit /\ [][\/ Open_history_file
                    \/ Write_part_of_history
                    \/ Write_rest_of_history
                    \/ Read_history_file]_vars

\* run_report invocations that reach load_history .. save_history at the same
\* time, each with the entry it is about to append.  Nothing in run_report or
\* save_history locks HISTORY_PATH: the steps of different invocations
\* interleave freely.
Invocations == 1..MaxInvocations

NewMetrics ==
    [m \in MetricSet |->
        IF m = "total_supply_usd" THEN Float(120)
        ELSE IF m = "usdc_supply_usd" THEN Float(30)
        ELSE IF m = "usdc_supply_share" THEN Frac(30, 120)
        ELSE Frac(2, 5)]

ConcurrentCalls ==
    {[fn |-> "run_report",
      entry |-> [p \in Invocations |-> build_history_entry(p, metrics[p], <<>>)]] :
        metrics \in [Invocations -> {OldMetrics, NewMetrics}]}

ConcurrentInit ==
    /\ initial \in {"missing", "badjson", "mixed", "full"}
    /\ file = InitialFile(initial)
    /\ Idle
    /\ args \in ConcurrentCalls
    /\ returned = NotReturned
    /\ writing = "closed"
    /\ observed = NotRead
    /\ invocations = [p \in Invocations |-> [at |-> "load", history |-> <<>>]]

\* invocation p: history = load_history(HISTORY_PATH) .. history.append(entry)
Load_concurrently(p) ==
    /\ invocations[p].at = "load"
    /\ LET loaded == load_history(file)
       IN  invocations' =
             [invocations EXCEPT ![p] =
                IF loaded.ok
                THEN [at |-> "save", history |-> Append(loaded.val, args.entry[p])]
                ELSE [at |-> "except", history |-> <<>>]]
    /\ UNCHANGED <<program, args, returned, writing, observed>>

\* a save that loads the file again and appends to what it holds now
Save_concurrently_merging(p) ==
    /\ invocations[p].at = "save"
    /\ file' = save_history(Append(load_history(file).val, args.entry[p]))
    /\ invocations' = [invocations EXCEPT ![p] = [at |-> "done", history |-> <<>>]]
    /\ UNCHANGED <<initial, appended, run, pc, attempt, kept, supply, polling, paging,
                   hist, outcome, last_poll, last_page, last_failure, last_reply, sent,
                   args, returned, writing, observed>>

\* invocation p: save_history(HISTORY_PATH, history)
Save_concurrently(p) ==
    /\ invocations[p].at = "save"
    /\ file' = save_history(invocations[p].history)
    /\ invocations' = [invocations EXCEPT ![p] = [at |-> "done", history |-> <<>>]]
    /\ UNCHANGED <<initial, appended, run, pc, attempt, kept, supply, polling, paging,
                   hist, outcome, last_poll, last_page, last_failure, last_reply, sent,
                   args, returned, writing, observed>>

ConcurrentSpec ==
    ConcurrentInit /\ [][\/ \E p \in Invocations : Load_concurrently(p)
                         \/ \E p \in Invocations : Save_concurrently(p)]_vars

(***************************************************************************)
(* Properties.                                                             *)
(***************************************************************************)
FailurePcs == {"except", "fail_card", "fail_text"}

IsRecordList(f) == f.kind = "list" /\ \A i \in 1..Len(f.items) : f.items[i].isdict

\* the entry of the current run is in the persisted history
NewEntryPersisted ==
    /\ run > 0
    /\ file.kind = "list"
    /\ \E i \in 1..Len(file.items) : file.items[i].isdict /\ file.items[i].run_time = run

\* C1: the history is written only on full success: a run that ends as a
\* failure (exit code 1) leaves no new entry in the persisted history.
HistoryWrittenOnlyOnFullSuccess ==
    (pc = "done" /\ exit_code = 1) => ~NewEntryPersisted

\* "usdc" is among the top-20 symbols without volume data
UsdcVolumeMissing == NormSym("usdc") \in Range(missing_symbols)

\* C2: when the volume totals are usable but hold no "usdc", the share is
\* unavailable and that is no error: the run does not take the failure path.
MissingUsdcVolumeIsNotAnError ==
    UsdcVolumeMissing => (error_message = "" /\ pc \notin FailurePcs)

\* C3: load_history succeeds only on a missing or blank store (empty
\* history) or on a list of records; anything else is fatal, never dropped.
LoadHistoryRejectsMalformed ==
    pc = "save_history" =>
        /\ file.kind \in {"missing", "blank"} \/ IsRecordList(file)
        /\ file.kind \in {"missing", "blank"} => Len(history) = 1

\* every record the store held before the first run, then the entries appended
AllEntries == SelectSeq(json_loads(InitialFile(initial).items), IsDict) \o appended

\* C4: the persisted history holds at most 52 entries and is, in order, the
\* most recent 52 of all entries appended so far.
HistoryIsMostRecent52 ==
    IsRecordList(file) =>
        /\ Len(file.items) <= MAX_HISTORY_ITEMS
        /\ json_loads(file.items) = LastN(AllEntries, MAX_HISTORY_ITEMS)

\* a 53rd entry was appended to a full history: 52 remain, the oldest is gone
EvictedOldest ==
    /\ initial = "full"
    /\ Len(appended) = 1
    /\ Len(file.items) = MAX_HISTORY_ITEMS
    /\ json_loads(file.items)[MAX_HISTORY_ITEMS] = appended[1]
    /\ json_loads(file.items)[1] = OldEntry(MAX_HISTORY_ITEMS - 1)

\* C5: the failure report carries exactly the metric values computed before
\* the failure, every metric not yet computed shown as unavailable.
FailureReportCarriesComputedMetrics ==
    pc \in FailurePcs => partial_metrics = computed

\* positions in sent of the messages of one report in one form
Sent(report, form) ==
    {i \in 1..Len(sent) : sent[i].report = report /\ sent[i].form = form}

\* C6: a failed pipeline ends with exit code 1 whether or not the failure
\* notification is delivered; a failed notification is only recorded; the
\* failure report is tried once as a card and once as text, each request at
\* most MAX_ATTEMPTS times.
PipelineFailureExitsOne ==
    /\ attempt \in 1..MAX_ATTEMPTS
    /\ Cardinality(Sent("failure", "card")) <= 1
    /\ Cardinality(Sent("failure", "text")) <= 1
    /\ error_message # "" => exit_code \in {-1, 1}
    /\ (pc = "done" /\ error_message # "") => exit_code = 1
    /\ notify_error # "" => (pc = "done" /\ exit_code = 1 /\ error_message # "")

\* the pipeline failed, the card and the text of the failure report failed too
FailureNotificationFailed ==
    /\ pc = "done"
    /\ exit_code = 1
    /\ notify_error # ""
    /\ failed_at \notin {"", "send_text"}
    /\ Len(sent) = 2
    /\ \A i \in 1..2 : sent[i].report = "failure" /\ ~sent[i].accepted

TextPcOf(report) == IF report = "success" THEN "send_text" ELSE "fail_text"

\* C7: every message goes out as a card first; an accepted card is followed
\* by no text; a card that failed (transport, non-JSON reply or non-zero code)
\* is followed by exactly one text; a failed text propagates to the caller.
NotifierFallsBackOnce ==
    /\ \A i \in 1..Len(sent) :
        /\ sent[i].form = "text" =>
             /\ i > 1
             /\ sent[i - 1].form = "card"
             /\ sent[i - 1].report = sent[i].report
             /\ ~sent[i - 1].accepted
        /\ (sent[i].form = "card" /\ sent[i].accepted) => (i = Len(sent) /\ pc = "done")
        /\ (sent[i].form = "card" /\ ~sent[i].accepted) =>
             IF i = Len(sent) THEN pc = TextPcOf(sent[i].report)
             ELSE sent[i + 1].form = "text" /\ sent[i + 1].report = sent[i].report
        /\ (sent[i].form = "text" /\ ~sent[i].accepted) =>
             IF sent[i].report = "success"
             THEN failed_at = "send_text" /\ error_message # ""
             ELSE notify_error # ""
    /\ \A report \in {"success", "failure"} : Cardinality(Sent(report, "text")) <= 1
    /\ pc \in {"send_text", "fail_text"} =>
         /\ sent # <<>>
         /\ sent[Len(sent)] = Message(IF pc = "send_text" THEN "send_card" ELSE "fail_card", FALSE)
    /\ last_reply \in {"nonzero", "nonjson", "transport"} =>
         sent # <<>> /\ ~sent[Len(sent)].accepted
    /\ last_reply = "zero" => sent # <<>> /\ sent[Len(sent)].accepted

\* the card got an HTTP-successful JSON reply with a non-zero code: text is next
CardRejectedByCode ==
    /\ last_reply = "nonzero"
    /\ pc = "send_text"
    /\ Len(sent) = 1
    /\ sent[1].form = "card" /\ ~sent[1].accepted

\* C8: result retrieval starts only from a poll that reported Completed or
\* CompletedPartial; a poll reporting Failed, Canceled or Expired ends the
\* polling with the provider's error message, else a message naming the
\* state; after it there is no further poll and no result retrieval.
ResultsOnlyAfterCompletion ==
    [][/\ (pc' = "results" /\ pc # "results") =>
            /\ pc = "poll"
            /\ last_poll'.json = "dict"
            /\ last_poll'.state \in SuccessStates
       /\ (pc = "poll" /\ last_poll'.json = "dict" /\ last_poll'.state \in FailureStates) =>
            /\ pc' = "except"
            /\ failed_at' = "poll"
            /\ polls' = 0
            /\ error_message' =
                 (IF last_poll'.error = "message" THEN "provider error message"
                  ELSE "Dune query execution failed with state " \o last_poll'.state)
       /\ failed_at' = "poll" => pc' \in FailurePcs \cup {"done"}]_vars

\* a Canceled poll without an error message ended the polling
CanceledPollIsTerminal ==
    /\ pc = "except"
    /\ failed_at = "poll"
    /\ last_poll.state = "QUERY_STATE_CANCELED"
    /\ last_poll.error = "nomessage"
    /\ error_message = "Dune query execution failed with state QUERY_STATE_CANCELED"

Intermediate(status_payload) ==
    /\ status_payload.json = "dict"
    /\ status_payload.state \notin SuccessStates \cup FailureStates
    /\ ~status_payload.is_execution_finished

\* C9: at most DUNE_MAX_POLLS status polls are made, each re-poll after one
\* sleep while the state is intermediate; an intermediate answer to the last
\* allowed poll is a timeout at once, with no sleep after it.
PollingIsBounded ==
    [][/\ polls' <= DUNE_MAX_POLLS
       /\ pc' = "poll" => (polls' >= 1 /\ sleeps' = polls' - 1)
       /\ pc' = "sleep" => (polls' < DUNE_MAX_POLLS /\ sleeps' = polls' - 1)
       /\ (pc = "poll" /\ Intermediate(last_poll')) =>
            IF polls < DUNE_MAX_POLLS THEN pc' = "sleep"
            ELSE /\ pc' = "except"
                 /\ error_message' = "Dune query execution timed out"
       /\ (pc = "poll" /\ error_message' = "Dune query execution timed out") =>
            (polls = DUNE_MAX_POLLS /\ sleeps = DUNE_MAX_POLLS - 1)]_vars

\* the last allowed poll was answered with an intermediate state
PollingTimedOut ==
    /\ pc = "except"
    /\ failed_at = "poll"
    /\ Intermediate(last_poll)
    /\ error_message = "Dune query execution timed out"

\* C10: a finished poll in a state that is neither a success nor a failure
\* state ends the polling as an unexpected state; the recognised states are
\* looked at before the finished flag; an unrecognised state that is not
\* finished is polled again.
UnexpectedFinishedStateIsTerminal ==
    last_poll.json = "dict" =>
        /\ last_poll.state \in SuccessStates => (pc = "results" /\ error_message = "")
        /\ last_poll.state \in FailureStates =>
             /\ pc = "except"
             /\ error_message # "Dune execution finished in unexpected state"
        /\ (last_poll.state \notin SuccessStates \cup FailureStates
                /\ last_poll.is_execution_finished) =>
             /\ pc = "except"
             /\ failed_at = "poll"
             /\ error_message = "Dune execution finished in unexpected state"
        /\ Intermediate(last_poll) =>
             \/ pc = "sleep"
             \/ pc = "except" /\ error_message = "Dune query execution timed out"

\* an unrecognised state reported as finished ended the polling
UnrecognizedFinished ==
    /\ pc = "except"
    /\ failed_at = "poll"
    /\ last_poll.state = "QUERY_STATE_UNRECOGNIZED"
    /\ last_poll.is_execution_finished
    /\ error_message = "Dune execution finished in unexpected state"

WellFormedPage(payload) ==
    payload.json = "dict" /\ payload.result = "dict" /\ payload.rows = "list"

\* C11: the first results request has offset 0; each later one has the cursor
\* of the response before it; the requests stop exactly after the first
\* response without a cursor, however many rows it holds; the rows of every
\* page, the last one included, are collected.
PaginationFollowsCursor ==
    [][/\ (pc # "results" /\ pc' = "results") => (offset' = 0 /\ rows' = <<>>)
       /\ (pc = "results" /\ pc' = "results" /\ last_page' = NoPage) =>
            UNCHANGED <<offset, rows>>
       /\ (pc = "results" /\ WellFormedPage(last_page')) =>
            IF last_page'.next_offset.present
            THEN /\ pc' = "results"
                 /\ offset' = last_page'.next_offset.value
                 /\ rows' = rows \o DictRows(last_page'.page_rows)
            ELSE /\ pc' \in {"reconcile", "except"}
                 /\ pc' = "reconcile" => rows' = rows \o DictRows(last_page'.page_rows)
                 /\ pc' = "except" =>
                      /\ rows \o DictRows(last_page'.page_rows) = <<>>
                      /\ error_message' = "Dune query returned no rows"]_vars

\* a page without rows but with a cursor was followed by another request, at
\* the offset the cursor named
EmptyPageWithCursorGoesOn ==
    /\ pc = "results"
    /\ WellFormedPage(last_page)
    /\ last_page.page_rows = <<>>
    /\ last_page.next_offset = Cursor(DUNE_RESULT_PAGE_LIMIT)
    /\ offset = DUNE_RESULT_PAGE_LIMIT

\* C12: every outbound call is attempted at most MAX_ATTEMPTS times; another
\* attempt follows only a failure by HTTP 429, 5xx, connection error or
\* timeout; any other HTTP error ends the call at once; after the last
\* attempt the call raises that attempt's failure itself.
RetryPolicy ==
    [][/\ attempt' \in 1..MAX_ATTEMPTS
       /\ attempt' # attempt => (attempt' = attempt + 1 \/ attempt' = 1)
       /\ attempt' = attempt + 1 =>
            (pc \in CallPcs /\ pc' = pc /\ last_failure' = "transient")
       /\ last_failure' = "terminal" => (pc' # pc /\ attempt' = 1)
       /\ last_failure' = "transient" =>
            IF attempt < MAX_ATTEMPTS THEN pc' = pc /\ attempt' = attempt + 1
            ELSE pc' # pc /\ attempt' = 1
       /\ (last_failure' # "" /\ pc' # pc /\ pc \notin {"send_card", "fail_card"}) =>
            LET raised == IF pc = "fail_text" THEN notify_error' ELSE error_message'
            IN  /\ raised \in FailKinds
                /\ FailureClass(raised) = last_failure'
                /\ pc' = (IF pc = "fail_text" THEN "done" ELSE "except")]_vars

\* the third attempt of the status request failed with a 5xx and the call
\* raised it
AttemptsExhausted ==
    /\ pc = "except"
    /\ failed_at = "poll"
    /\ last_failure = "transient"
    /\ error_message = "http5xx"

\* C13: every started run eventually ends, whatever the providers answer.
EveryRunEnds ==
    (pc \notin {"idle", "done", "skipped"}) ~> (pc = "done")

Usable ==
    {i \in 1..Len(args.pegged_assets) :
        /\ args.pegged_assets[i].pegType = "peggedUSD"
        /\ ~IsEmptyText(Strip(args.pegged_assets[i].symbol))}

Normalized(i) == Lower(Strip(args.pegged_assets[i].symbol))
Circulating(i) == get_pegged_usd_circulating(args.pegged_assets[i])
UsableSymbols == {Normalized(i) : i \in Usable}

\* the highest circulating value among the records of one normalized symbol
Best(symbol) ==
    LET of == {Circulating(i) : i \in {j \in Usable : Normalized(j) = symbol}}
    IN  CHOOSE v \in of : \A w \in of : w <= v

\* C15: for USD-pegged assets of distinct circulating values the top-20 list
\* holds only normalized symbols of USD-pegged assets, in descending order of
\* circulating value, none twice, each ranked by its highest record, and is
\* the first 20 of that ranking.
Top20IsSortedAndDistinct ==
    (/\ args.fn = "build_top20_symbols_and_usdc_supply"
     /\ returned.done
     /\ returned.value.ok
     /\ \A i, j \in Usable : i # j => Circulating(i) # Circulating(j)) =>
        LET top == returned.value.val.top_symbols
        IN  /\ \A k \in 1..Len(top) :
                 /\ top[k] \in UsableSymbols
                 /\ ~top[k].upper /\ ~top[k].pad /\ top[k].base # ""
            /\ \A k, l \in 1..Len(top) :
                 k < l => (top[k] # top[l] /\ Best(top[k]) > Best(top[l]))
            /\ Len(top) = (IF Cardinality(UsableSymbols) < TOP_N
                           THEN Cardinality(UsableSymbols) ELSE TOP_N)
            /\ \A symbol \in UsableSymbols \ Range(top) :
                 \A k \in 1..Len(top) : Best(top[k]) > Best(symbol)

\* of 22 symbols the 20 of highest value are kept: the two lowest, USDC one
\* of them, are left out
Top20CutsAtTwenty ==
    /\ args.fn = "build_top20_symbols_and_usdc_supply"
    /\ args.pegged_assets = ManyAssets(50)
    /\ returned.done
    /\ returned.value.ok
    /\ Len(returned.value.val.top_symbols) = TOP_N
    /\ returned.value.val.top_symbols[1] = NormSym("t21")
    /\ returned.value.val.top_symbols[TOP_N] = NormSym("t02")
    /\ NormSym("usdc") \notin Range(returned.value.val.top_symbols)

UsdcRecords == {i \in Usable : Upper(Normalized(i)) = Upper(NormSym("usdc"))}

\* C16: usdc_supply_usd is the largest circulating value of the USD-pegged
\* records whose symbol is "usdc" in any case; without a USD-pegged asset, or
\* without such a record, the selection fails.
UsdcSupplyIsMaxOfCandidates ==
    (args.fn = "build_top20_symbols_and_usdc_supply" /\ returned.done) =>
        IF Usable = {}
        THEN ~returned.value.ok /\ returned.value.err = "No peggedUSD assets found"
        ELSE IF UsdcRecords = {}
        THEN ~returned.value.ok /\ returned.value.err = "USDC supply not found"
        ELSE /\ returned.value.ok
             /\ \E i \in UsdcRecords : returned.value.val.usdc_supply_usd = Circulating(i)
             /\ \A i \in UsdcRecords : Circulating(i) <= returned.value.val.usdc_supply_usd

\* USDC records of 10, 30 and 20: the supply is 30
UsdcSupplyOfThreeRecords ==
    /\ args.fn = "build_top20_symbols_and_usdc_supply"
    /\ Len(args.pegged_assets) = 3
    /\ \A i \in 1..3 : i \in UsdcRecords
    /\ <<Circulating(1), Circulating(2), Circulating(3)>> = <<10, 30, 20>>
    /\ returned.done
    /\ returned.value.ok
    /\ returned.value.val.usdc_supply_usd = 30

\* h is the integer nearest to n / d
Nearest(h, n, d) == 2 * Abs(h * d - n) <= Abs(d)

\* C17: the delta of a metric is unavailable when the current or the previous
\* value is; for a currency metric it is (current - previous) / previous as a
\* percentage, unavailable when previous is 0; for a share metric it is
\* (current - previous) x 100 in percentage points, also when previous is 0.
DeltaPerMetricKind ==
    (args.fn = "build_wow_map" /\ returned.done) =>
        \A m \in MetricSet :
            LET current == args.current_metrics[m]
                previous == IF args.previous_metrics.has
                            THEN args.previous_metrics.metrics[m] ELSE None
                delta == returned.value[m]
                diff == current.num * previous.den - previous.num * current.den
            IN  IF ~current.avail \/ ~previous.avail THEN ~delta.avail
                ELSE IF METRIC_SPECS[m] = "currency"
                THEN IF previous.num = 0 THEN ~delta.avail
                     ELSE /\ delta.avail
                          /\ delta.unit = "%"
                          /\ Nearest(delta.hundredths, diff * previous.den * 10000,
                                     current.den * previous.den * previous.num)
                ELSE /\ delta.avail
                     /\ delta.unit = "pp"
                     /\ Nearest(delta.hundredths, diff * 10000, current.den * previous.den)

\* an amount going from 100 to 150 is +50.00%, a share going from 0.40 to
\* 0.45 is +5.00pp
DeltaOfAmountAndShare ==
    /\ args.fn = "build_wow_map"
    /\ args.current_metrics = MetricsOf(Float(150), Frac(9, 20))
    /\ args.previous_metrics = [has |-> TRUE, metrics |-> MetricsOf(Float(100), Frac(2, 5))]
    /\ returned.done
    /\ returned.value["total_supply_usd"] = [avail |-> TRUE, unit |-> "%", hundredths |-> 5000]
    /\ returned.value["usdc_supply_share"] = [avail |-> TRUE, unit |-> "pp", hundredths |-> 500]

\* C18 as stated: every history list saved and then loaded comes back as an
\* equal ordered sequence of entries.
RoundTripOfEveryList ==
    (args.fn = "save_history" /\ returned.done) =>
        returned.value.ok /\ returned.value.val = args.history

\* C18: a history list of at most 52 entries saved and then loaded comes back
\* as an equal ordered sequence of entries; of a longer list the last 52
\* entries come back, in order.
RoundTripWithinLimit ==
    (args.fn = "save_history" /\ returned.done) =>
        /\ returned.value.ok
        /\ returned.value.val = LastN(args.history, MAX_HISTORY_ITEMS)
        /\ Len(args.history) <= MAX_HISTORY_ITEMS => returned.value.val = args.history

\* a list of three different entries, unavailable metrics among them, came back
RoundTripOfThreeEntries ==
    /\ args.fn = "save_history"
    /\ Len(args.history) = 3
    /\ \A i, j \in 1..3 : i # j => args.history[i] # args.history[j]
    /\ \E i \in 1..3 : ~args.history[i].metrics["usdc_transfer_volume_share_7d"].avail
    /\ file.kind = "list"
    /\ file.items # args.history
    /\ returned.done
    /\ returned.value.ok
    /\ returned.value.val = args.history

\* C19: whenever another process reads the history file, during a save or
\* after it, it reads the whole previous content or the whole new content.
ReaderSeesWholeFile ==
    (args.fn = "save_history" /\ observed # NotRead) =>
        observed \in {InitialFile(initial), save_history(args.history)}

\* the steps of a run in the order of the outbound calls: the asset list, the
\* supply series, the query's submission, its status polls, its result
\* pages, the webhook
Stages ==
    <<{"stablecoins"}, {"chart"}, {"supply_metrics"}, {"execute"}, {"poll", "sleep"},
      {"results"}, {"reconcile", "load_history", "save_history"},
      {"except", "send_card", "send_text", "fail_card", "fail_text"}>>

StageOf(p) == CHOOSE i \in 1..Len(Stages) : p \in Stages[i]

Running(p) == p \notin {"idle", "done", "skipped"}

\* C20: the outbound calls of a run follow one another in the order asset
\* list, supply series, query submission, status polls, result pages,
\* webhook, a call starting only when the one before has ended; the query is
\* submitted only after both supply fetches have returned and the supply
\* metrics are computed; a further result page is requested only by the step
\* that processed the response to the page before.
OutboundCallsInOrder ==
    [][/\ (Running(pc) /\ Running(pc')) => StageOf(pc) <= StageOf(pc')
       /\ (pc' \in CallPcs /\ pc' # pc) => attempt' = 1
       /\ pc' = "execute" =>
            /\ pc \in {"supply_metrics", "execute"}
            /\ pegged_assets' # <<>> /\ chart_points' # <<>>
            /\ \A m \in SupplyMetrics : partial_metrics'[m].avail
       /\ (pc = "results" /\ pc' = "results") =>
            \/ /\ last_page' = NoPage
               /\ attempt' = attempt + 1
               /\ UNCHANGED <<pages, offset, rows>>
            \/ /\ WellFormedPage(last_page')
               /\ last_page'.next_offset.present
               /\ attempt' = 1
               /\ rows' = rows \o DictRows(last_page'.page_rows)]_vars

\* the success card is on its way: the supply was fetched, the query polled
\* and its pages read, every metric computed and the history saved
WebhookAfterEveryOtherCall ==
    /\ pc = "send_card"
    /\ attempt = 1
    /\ \A m \in MetricSet : partial_metrics[m].avail
    /\ pegged_assets # <<>> /\ chart_points # <<>>
    /\ NewEntryPersisted

\* the entries of the persisted history, in order
Recorded ==
    IF file.kind = "list" THEN SelectSeq(json_loads(file.items), IsDict) ELSE <<>>

\* the deltas the run reports are those of its metrics against previous
DeltasAgainst(previous) ==
    \A m \in MetricSet : wow_map[m] = format_wow(m, partial_metrics[m], previous[m])

\* C21: the deltas of a run are computed against the metrics of the last
\* entry the history held before the run appended its own: before the save
\* that is the last persisted entry, after it the last but one; with no such
\* entry every delta is unavailable.
DeltasAgainstPreviousEntry ==
    /\ pc = "save_history" =>
         LET recorded == Recorded
         IN  IF recorded = <<>> THEN \A m \in MetricSet : ~wow_map[m].avail
             ELSE DeltasAgainst(recorded[Len(recorded)].metrics)
    /\ pc \in {"send_card", "send_text"} =>
         LET recorded == Recorded
         IN  /\ recorded # <<>>
             /\ recorded[Len(recorded)].run_time = run
             /\ IF Len(recorded) = 1 THEN \A m \in MetricSet : ~wow_map[m].avail
                ELSE DeltasAgainst(recorded[Len(recorded) - 1].metrics)

\* the second of two successful runs on a full history reports no change
\* against the first run's entry, not the change against an older one
SecondRunComparesWithFirst ==
    /\ initial = "full"
    /\ Len(appended) = 2
    /\ pc = "send_card"
    /\ appended[1].metrics # OldMetrics
    /\ \A m \in MetricSet : wow_map[m].avail /\ wow_map[m].hundredths = 0

\* the invocations whose new entry the persisted history holds
Kept == {p \in DOMAIN invocations : args.entry[p] \in Range(Recorded)}

\* C22: nothing keeps the history steps of concurrent invocations apart: a
\* save writes the list the invocation loaded, with its own entry, over
\* whatever was saved since it loaded, so that the entry of another
\* invocation stays only if it was in the list loaded.
SaveOverwritesWhatWasSavedSince ==
    [][\A p \in DOMAIN invocations :
         (invocations[p].at = "save" /\ invocations'[p].at = "done") =>
            /\ file'.kind = "list"
            /\ json_loads(file'.items) = LastN(invocations[p].history, MAX_HISTORY_ITEMS)
            /\ \A q \in DOMAIN invocations :
                 args.entry[q] \in Range(json_loads(file'.items)) <=>
                    args.entry[q] \in Range(invocations[p].history)]_vars

\* two invocations loaded the same history and both saved: the history holds
\* the new entry of one of them only
LostUpdate ==
    /\ args.fn = "run_report"
    /\ DOMAIN invocations = 1..2
    /\ \A p \in DOMAIN invocations : invocations[p].at = "done"
    /\ Cardinality(Kept) = 1

\* C23: a run appends at most one entry to the history, and every entry
\* appended holds a value for each of the four metrics.
OneCompleteEntryPerRun ==
    /\ Len(appended) <= run
    /\ \A i \in 1..Len(appended) :
         /\ appended[i].run_time \in 1..run
         /\ \A j \in 1..Len(appended) : i # j => appended[i].run_time # appended[j].run_time
         /\ \A m \in MetricSet : appended[i].metrics[m].avail
    /\ LET recorded == Recorded
           new == {i \in 1..Len(recorded) : recorded[i].run_time >= 1}
       IN  \A i \in new :
             /\ \A j \in new : i # j => recorded[i].run_time # recorded[j].run_time
             /\ \A m \in MetricSet : recorded[i].metrics[m].avail

\* two runs have each appended their entry to a history that had none
TwoRunsTwoEntries ==
    /\ initial = "missing"
    /\ run = 2
    /\ pc = "done"
    /\ Len(appended) = 2
    /\ Len(Recorded) = 2
    /\ Recorded = appended

\* positions in sent of the messages the webhook accepted
Accepted == {i \in 1..Len(sent) : sent[i].accepted}

\* C24: a run that passed the scheduling gate returns 0 only if the webhook
\* accepted its success report, as a card or as text; the webhook accepts at
\* most one message of a run: once it has accepted one, the run sends nothing
\* more and returns, with 1 if the message was a failure report.
ExitZeroOnlyIfSuccessAccepted ==
    /\ (pc = "done" /\ exit_code = 0) =>
         \E i \in Accepted : sent[i].report = "success"
    /\ Cardinality(Accepted) <= 1
    /\ \A i \in Accepted :
         /\ i = Len(sent)
         /\ pc = "done"
         /\ exit_code = (IF sent[i].report = "success" THEN 0 ELSE 1)

\* the success card was refused and the text accepted: the run returned 0
SuccessTextAccepted ==
    /\ pc = "done"
    /\ exit_code = 0
    /\ Len(sent) = 2
    /\ sent[1].report = "success" /\ sent[1].form = "card" /\ ~sent[1].accepted
    /\ sent[2].report = "success" /\ sent[2].form = "text" /\ sent[2].accepted

====
